---- MODULE Spec2Model ----
(***************************************************************************)
(* minecraft-assets: the resource-kind registry (api/resource/kind.rs) and *)
(* the custom-biome schema (schemas/worldgen/biome.rs).                    *)
(*                                                                         *)
(* The schema is a set of serde-derived types, so its behaviour is the     *)
(* behaviour of the derived Deserialize / Serialize implementations driven *)
(* by serde_json.  The types are written down as schema values, field by   *)
(* field and attribute by attribute, and one generic Deserialize /         *)
(* SerializeValue pair interprets them the way the derived code does.      *)
(***************************************************************************)
EXTENDS Integers, Sequences, FiniteSets, TLC

VARIABLES
    resolved,   \* registry lookups made so far: kind -> (category, extension, directory)
    kind,       \* the kind of the last lookup
    doc,        \* the JSON document handed to the deserializer
    res,        \* result of deserializing doc
    out,        \* JSON document produced by serializing res.v
    res2,       \* result of deserializing out
    pc          \* "input" -> "parsed" -> "serialized" -> "reparsed"

vars == <<resolved, kind, doc, res, out, res2, pc>>

(***************************************************************************)
(* Resource kind registry                                                  *)
(***************************************************************************)

ResourceKind ==
    {"BlockStates", "BlockModel", "ItemModel", "Texture", "TextureMeta", "WorldGen_Biome"}

category_allAssets(k) ==
    CASE k \in {"BlockStates", "BlockModel", "ItemModel", "Texture", "TextureMeta"} -> "Assets"
      [] k = "WorldGen_Biome" -> "Assets"

category(k) ==
    CASE k \in {"BlockStates", "BlockModel", "ItemModel", "Texture", "TextureMeta"} -> "Assets"
      [] k = "WorldGen_Biome" -> "Data"

extension_metaAsPng(k) ==
    CASE k \in {"BlockStates", "BlockModel", "ItemModel", "WorldGen_Biome"} -> "json"
      [] k \in {"Texture", "TextureMeta"} -> "png"

extension(k) ==
    CASE k \in {"BlockStates", "BlockModel", "ItemModel", "WorldGen_Biome"} -> "json"
      [] k = "Texture" -> "png"
      [] k = "TextureMeta" -> "png.mcmeta"

directory(k) ==
    CASE k = "BlockStates" -> "blockstates"
      [] k = "BlockModel" -> "models/block"
      [] k = "ItemModel" -> "models/item"
      [] k \in {"Texture", "TextureMeta"} -> "textures"
      [] k = "WorldGen_Biome" -> "worldgen/biome"

\* A caller asks the registry for the three path components of kind k.
Lookup(k) ==
    /\ kind' = k
    /\ resolved' = (k :> [category |-> category(k),
                          extension |-> extension(k),
                          directory |-> directory(k)]) @@ resolved
    /\ UNCHANGED <<doc, res, out, res2, pc>>

(***************************************************************************)
(* JSON values.  An object is the sequence of its entries in document      *)
(* order.  An integer literal (no fraction, no exponent) carries its       *)
(* magnitude in two 16-bit limbs, hi * 2^16 + lo, so that values around    *)
(* 2^32 are exact.  Any other number literal is what serde_json's number   *)
(* parser collects from it: the sign, the digits as one significand        *)
(* hi * 10^9 + lo (below 10^18) and the decimal exponent left after the    *)
(* fraction digits are counted, so 1.24663e-24 is 124663 and -29.          *)
(***************************************************************************)

Limb == 2^16

JNull == [t |-> "null"]
JBool(b) == [t |-> "bool", b |-> b]
JInt(neg, hi, lo) == [t |-> "int", neg |-> neg, hi |-> hi, lo |-> lo]
JDec(neg, hi, lo, e) == [t |-> "float", neg |-> neg, hi |-> hi, lo |-> lo, e |-> e]
\* the literal m * 10^e for a significand below 10^9
JFloat(m, e) == JDec(m < 0, 0, IF m < 0 THEN -m ELSE m, e)
JStr(s) == [t |-> "str", s |-> s]
JArr(a) == [t |-> "arr", a |-> a]
JObj(o) == [t |-> "obj", o |-> o]
Entry(k, v) == [k |-> k, v |-> v]

Abs(n) == IF n < 0 THEN -n ELSE n
Max(a, b) == IF a >= b THEN a ELSE b
Min(a, b) == IF a <= b THEN a ELSE b

RECURSIVE Digits(_)
Digits(n) == IF n < 10 THEN 1 ELSE 1 + Digits(n \div 10)

(***************************************************************************)
(* Results                                                                 *)
(***************************************************************************)

Ok(v) == [ok |-> TRUE, v |-> v]
Err(e, at) == [ok |-> FALSE, err |-> e, at |-> at]
NoResult == Err("none", "")

None == [some |-> FALSE]
Some(x) == [some |-> TRUE, v |-> x]

(***************************************************************************)
(* Schema types: what a field declaration says about its value.            *)
(***************************************************************************)

TBool == [c |-> "bool"]
TU32 == [c |-> "u32"]
TF32 == [c |-> "f32"]
TF64 == [c |-> "f64"]
TString == [c |-> "string"]
TOption(t) == [c |-> "option", of |-> t]
TVec(t) == [c |-> "vec", of |-> t]
\* variants: <<[v |-> Rust name, s |-> name under rename_all = "snake_case"]>>;
\* dflt: the variant returned by the type's Default impl.
TEnum(variants, dflt) == [c |-> "enum", variants |-> variants, dflt |-> dflt]
Variant(v, s) == [v |-> v, s |-> s]
\* fields in declaration order; default = the field carries #[serde(default)].
TStruct(fields) == [c |-> "struct", fields |-> fields]
Field(name, ty, default) == [name |-> name, ty |-> ty, default |-> default]

(***************************************************************************)
(* Naturals of any size, for the arithmetic of the floats: limbs in base   *)
(* 2^15, least significant first, no zero limb at the top; <<>> is zero.   *)
(***************************************************************************)

Radix == 2^15

RECURSIVE BitsOf(_)
BitsOf(n) == IF n = 0 THEN 0 ELSE 1 + BitsOf(n \div 2)

RadixBits == BitsOf(Radix) - 1

\* F of the value of x: x is evaluated once, before F is entered.
ApplyTo(x, F(_)) == CHOOSE y \in {F(v) : v \in {x}} : TRUE

SetMax(S) == CHOOSE x \in S : \A y \in S : y <= x

BTrim(a) ==
    LET nz == {i \in 1..Len(a) : a[i] # 0}
    IN  IF nz = {} THEN <<>> ELSE SubSeq(a, 1, SetMax(nz))

RECURSIVE BFromInt(_)
BFromInt(n) == IF n = 0 THEN <<>> ELSE <<n % Radix>> \o BFromInt(n \div Radix)

RECURSIVE BToInt(_)
\* for a below 2^31
BToInt(a) == IF a = <<>> THEN 0 ELSE a[1] + Radix * BToInt(Tail(a))

LimbAt(a, i) == IF 1 <= i /\ i <= Len(a) THEN a[i] ELSE 0

\* The carry into limb i is decided by the nearest limb below it whose sum
\* is not Radix - 1.
BAdd(a, b) ==
    IF Len(a) = 0 THEN b
    ELSE IF Len(b) = 0 THEN a
    ELSE LET n == Max(Len(a), Len(b))
             sum == [i \in 1..n |-> LimbAt(a, i) + LimbAt(b, i)]
             stops == {j \in 1..n : sum[j] # Radix - 1}
             carry(i) == LET below == {j \in stops : j < i}
                         IN  IF below # {} /\ sum[SetMax(below)] >= Radix THEN 1 ELSE 0
         IN  BTrim([i \in 1..(n + 1) |->
                       IF i <= n THEN (sum[i] + carry(i)) % Radix ELSE carry(i)])

\* a - b for a >= b
BSub(a, b) ==
    IF Len(b) = 0 THEN a
    ELSE LET diff == [i \in 1..Len(a) |-> a[i] - LimbAt(b, i)]
             stops == {j \in 1..Len(a) : diff[j] # 0}
             borrow(i) == LET below == {j \in stops : j < i}
                          IN  IF below # {} /\ diff[SetMax(below)] < 0 THEN 1 ELSE 0
         IN  BTrim([i \in 1..Len(a) |-> (diff[i] - borrow(i) + Radix) % Radix])

\* -1, 0 or 1 as a is below, equal to or above b
BCmp(a, b) ==
    IF Len(a) # Len(b) THEN (IF Len(a) < Len(b) THEN -1 ELSE 1)
    ELSE LET differ == {i \in 1..Len(a) : a[i] # b[i]}
         IN  IF differ = {} THEN 0
             ELSE IF a[SetMax(differ)] < b[SetMax(differ)] THEN -1 ELSE 1

BShiftLimbs(a, n) == IF Len(a) = 0 THEN a ELSE [i \in 1..n |-> 0] \o a

\* a * k for k <= 2^15: the low halves of the limb products plus the high
\* halves one limb up
BMulSmall(a, k) ==
    IF Len(a) = 0 \/ k = 0 THEN <<>>
    ELSE BAdd(BTrim([i \in 1..Len(a) |-> (a[i] * k) % Radix]),
              BTrim([i \in 1..(Len(a) + 1) |-> IF i = 1 THEN 0 ELSE (a[i - 1] * k) \div Radix]))

RECURSIVE BMulRange(_, _, _, _)
\* a times the limbs lo..hi of b, each at its place
BMulRange(a, b, lo, hi) ==
    IF lo = hi THEN BShiftLimbs(BMulSmall(a, b[lo]), lo - 1)
    ELSE BAdd(BMulRange(a, b, lo, (lo + hi) \div 2),
              BMulRange(a, b, (lo + hi) \div 2 + 1, hi))

BMul(a, b) == IF Len(a) = 0 \/ Len(b) = 0 THEN <<>> ELSE BMulRange(a, b, 1, Len(b))

\* a * 2^s
BShl(a, s) ==
    IF Len(a) = 0 THEN a
    ELSE LET q == s \div RadixBits
             f == 2^(s % RadixBits)
         IN  BTrim([i \in 1..(Len(a) + q + 1) |->
                       ((LimbAt(a, i - q) * f) % Radix) + ((LimbAt(a, i - q - 1) * f) \div Radix)])

\* a \div 2^s
BShr(a, s) ==
    IF Len(a) = 0 THEN a
    ELSE LET q == s \div RadixBits
             f == 2^(s % RadixBits)
         IN  BTrim([i \in 1..Max(0, Len(a) - q) |->
                       (LimbAt(a, i + q) \div f) + ((LimbAt(a, i + q + 1) % f) * (Radix \div f))])

BitLen(a) == IF Len(a) = 0 THEN 0 ELSE RadixBits * (Len(a) - 1) + BitsOf(a[Len(a)])

BitAt(a, i) == (LimbAt(a, i \div RadixBits + 1) \div 2^(i % RadixBits)) % 2

\* The largest q with b * q <= r, for r < b * Radix and the top limb of b
\* at least Radix / 2: the quotient of the top limbs is q, q + 1 or q + 2.
QuotDigit(r, b) ==
    LET n == Len(b)
        est == Min(Radix - 1, (LimbAt(r, n + 1) * Radix + LimbAt(r, n)) \div b[n])
    IN  IF BCmp(BMulSmall(b, est), r) <= 0 THEN est
        ELSE IF BCmp(BMulSmall(b, est - 1), r) <= 0 THEN est - 1
        ELSE est - 2

\* one step of the long division by b: the next limb joins the remainder
BDivStep(up, limb, b) ==
    LET r1 == BTrim(<<limb>> \o up.r)
        d == QuotDigit(r1, b)
    IN  [q |-> <<d>> \o up.q, r |-> BSub(r1, BMulSmall(b, d))]

RECURSIVE BDivFrom(_, _, _)
\* long division of the limbs i.. of a by b
BDivFrom(a, b, i) ==
    IF i > Len(a) - Len(b) + 1 THEN [q |-> <<>>, r |-> BTrim(SubSeq(a, i, Len(a)))]
    ELSE ApplyTo(BDivFrom(a, b, i + 1), LAMBDA up : BDivStep(up, a[i], b))

\* quotient and remainder of a by b, b > 0
BDivMod(a, b) ==
    LET sh == RadixBits - BitsOf(b[Len(b)])
    IN  ApplyTo(BDivFrom(BShl(a, sh), BShl(b, sh), 1), LAMBDA d :
            [q |-> BTrim(d.q), r |-> BShr(d.r, sh)])

RECURSIVE BPow10(_)
BPow10(k) ==
    IF k = 0 THEN <<1>>
    ELSE ApplyTo(BPow10(k \div 2), LAMBDA h :
             IF k % 2 = 0 THEN BMul(h, h) ELSE BMulSmall(BMul(h, h), 10))

Giga == 10^9

\* the significand hi * 10^9 + lo
BFromDec(hi, lo) == BAdd(BMul(BFromInt(hi), BFromInt(Giga)), BFromInt(lo))

(***************************************************************************)
(* Numbers.  A float value is named by the decimal that serde_json writes  *)
(* for it, the shortest one that reads back as the same float: sign,       *)
(* digits hi * 10^9 + lo free of trailing zeros, and exponent; or it is    *)
(* infinite.  Two finite values are the same float exactly when these are  *)
(* equal (0.0 and -0.0 are told apart, as their bits are).  Between a      *)
(* literal and that decimal the float is a binary magnitude m * 2^e, and   *)
(* the arithmetic on it is the IEEE 754 arithmetic of the program, exact   *)
(* product or quotient rounded to nearest, ties to even.                   *)
(***************************************************************************)

Fin(neg, hi, lo, e) == [k |-> "fin", neg |-> neg, hi |-> hi, lo |-> lo, e |-> e]
Inf(neg) == [k |-> "inf", neg |-> neg]

RECURSIVE Normalize(_, _, _, _)
\* the decimal hi * 10^9 + lo times 10^e without its trailing zeros
Normalize(neg, hi, lo, e) ==
    IF hi = 0 /\ lo = 0 THEN Fin(neg, 0, 0, 0)
    ELSE IF lo % 10 = 0
    THEN Normalize(neg, hi \div 10, (hi % 10) * (Giga \div 10) + lo \div 10, e + 1)
    ELSE Fin(neg, hi, lo, e)

\* number of digits of hi * 10^9 + lo
DecDigits(hi, lo) == IF hi > 0 THEN 9 + Digits(hi) ELSE Digits(lo)

\* The two binary formats: p significand bits, least quantum 2^qmin, every
\* finite value below 2^(emax + 1); a decimal of up to `digits` digits is the
\* shortest decimal of the float nearest to it, and `most` digits tell any
\* two floats apart; ryu writes a whole number below 10^plain without
\* exponent.
F64 == [p |-> 53, qmin |-> -1074, emax |-> 1023, digits |-> 15, most |-> 17, plain |-> 16]
F32 == [p |-> 24, qmin |-> -149, emax |-> 127, digits |-> 6, most |-> 9, plain |-> 13]

\* A binary magnitude m * 2^e.
Bin(m, e) == [m |-> m, e |-> e]

\* n * 2^e, plus a nonzero amount below its last bit when sticky, rounded to
\* the nearest value of the format, ties to even.
RoundBits(n, e, sticky, fmt) ==
    LET shift == Max(BitLen(n) - fmt.p, fmt.qmin - e)
    IN  IF shift <= 0 THEN Bin(n, e)
        ELSE LET q == BShr(n, shift)
                 c == BCmp(BSub(n, BShl(q, shift)), BShl(<<1>>, shift - 1))
                 up == c > 0 \/ (c = 0 /\ (sticky \/ BitAt(q, 0) = 1))
             IN  Bin(IF up THEN BAdd(q, <<1>>) ELSE q, e + shift)

IsInfinite(x, fmt) == BitLen(x.m) + x.e > fmt.emax + 1

\* f64 * f64
FMul(a, b) == RoundBits(BMul(a.m, b.m), a.e + b.e, FALSE, F64)

\* f64 / f64, b > 0: the quotient to three bits more than the format holds,
\* the remainder as the sticky bit.
FDiv(a, b) ==
    IF a.m = <<>> THEN a
    ELSE LET s == Max(0, 3 + F64.p + BitLen(b.m) - BitLen(a.m))
         IN  ApplyTo(BDivMod(BShl(a.m, s), b.m), LAMBDA d :
                 RoundBits(d.q, a.e - b.e - s, d.r # <<>>, F64))

\* The entry 1e<k> of serde_json's table POW10, k in 0..308: the f64 nearest
\* to 10^k.
POW10(k) == RoundBits(BPow10(k), 0, FALSE, F64)

\* serde_json's Deserializer::f64_from_parts on the magnitude: the
\* significand as f64, then one multiplication or division by POW10[|exponent|]
\* (after divisions by 1e308 while the exponent is below -308).  The result
\* is the nearest f64 only while the power of ten is exact, up to 1e22.
RECURSIVE F64FromParts(_, _)
F64FromParts(f, exponent) ==
    IF Abs(exponent) <= 308
    THEN ApplyTo(POW10(Abs(exponent)), LAMBDA pow :
             IF exponent >= 0
             THEN ApplyTo(FMul(f, pow), LAMBDA g :
                      IF IsInfinite(g, F64) THEN Err("number_out_of_range", "") ELSE Ok(g))
             ELSE Ok(FDiv(f, pow)))
    ELSE IF f.m = <<>> THEN Ok(f)
    ELSE IF exponent >= 0 THEN Err("number_out_of_range", "")
    ELSE ApplyTo(FDiv(f, POW10(308)), LAMBDA g : F64FromParts(g, exponent + 308))

\* The f64 that the number parser makes of a literal with a fraction or an
\* exponent.
ParseFloat(j) ==
    ApplyTo(RoundBits(BFromDec(j.hi, j.lo), 0, FALSE, F64), LAMBDA f : F64FromParts(f, j.e))

\* The u64 / i64 magnitude of an integer literal.
IntMag(j) == BAdd(BShl(BFromInt(j.hi), 16), BFromInt(j.lo))

(***************************************************************************)
(* The shortest decimal that reads back as the same float, nearest to it   *)
(* when there are several (what ryu computes), in exact arithmetic: the    *)
(* value is r / s * 10^k, the gap to the midpoint above is mp / s and to   *)
(* the midpoint below mm / s; the midpoints belong to the float when its   *)
(* significand is even.                                                    *)
(***************************************************************************)

\* The float x as a fraction r / s with its gaps, and est, the exponent of a
\* power of ten not above it.
Gaps(x, fmt) ==
    LET \* the significand at full width (or at the least quantum)
        d == Min(fmt.p - BitLen(x.m), x.e - fmt.qmin)
        m == IF d >= 0 THEN BShl(x.m, d) ELSE BShr(x.m, -d)
        e == x.e - d
        \* at a power of two the float below is half as far
        narrow == BCmp(m, BShl(<<1>>, fmt.p - 1)) = 0 /\ e > fmt.qmin
        u == IF narrow THEN 4 ELSE 2
        mm == IF e >= 0 THEN BShl(<<1>>, e) ELSE <<1>>
    IN  [r |-> IF e >= 0 THEN BShl(BMulSmall(m, u), e) ELSE BMulSmall(m, u),
         s |-> IF e >= 0 THEN BFromInt(u) ELSE BShl(BFromInt(u), -e),
         mp |-> IF narrow THEN BMulSmall(mm, 2) ELSE mm,
         mm |-> mm,
         even |-> BitAt(m, 0) = 0,
         k |-> ((BitLen(m) + e - 1) * 30103) \div 100000 - 1]

\* the same fraction over 10^g.k
Scaled(g) ==
    ApplyTo(BPow10(Abs(g.k)), LAMBDA up :
        IF g.k >= 0 THEN [g EXCEPT !.s = BMul(g.s, up)]
        ELSE [g EXCEPT !.r = BMul(g.r, up), !.mp = BMul(g.mp, up), !.mm = BMul(g.mm, up)])

RECURSIVE ScaleUp(_)
\* the least k at which the upper midpoint is below 10^k
ScaleUp(sc) ==
    LET c == BCmp(BAdd(sc.r, sc.mp), sc.s)
    IN  IF (IF sc.even THEN c >= 0 ELSE c > 0)
        THEN ScaleUp([sc EXCEPT !.s = BMulSmall(sc.s, 10), !.k = sc.k + 1])
        ELSE sc

\* The value cut to i digits: the digits q, and whether q (low) or q + 1
\* (high) lies between the midpoints.
Cut(sc, i) ==
    ApplyTo(BPow10(i), LAMBDA p :
    ApplyTo(BDivMod(BMul(sc.r, p), sc.s), LAMBDA d :
        LET lo == BCmp(d.r, BMul(sc.mm, p))
            hi == BCmp(BAdd(d.r, BMul(sc.mp, p)), sc.s)
        IN  [q |-> d.q, r |-> d.r,
             low |-> IF sc.even THEN lo <= 0 ELSE lo < 0,
             high |-> IF sc.even THEN hi >= 0 ELSE hi > 0]))

RECURSIVE FewestDigits(_, _, _)
\* the least i in lo..hi at which a cut lies between the midpoints (if one
\* of i digits does, one of i + 1 digits does)
FewestDigits(sc, lo, hi) ==
    IF lo = hi THEN lo
    ELSE LET c == Cut(sc, (lo + hi) \div 2)
         IN  IF c.low \/ c.high THEN FewestDigits(sc, lo, (lo + hi) \div 2)
             ELSE FewestDigits(sc, (lo + hi) \div 2 + 1, hi)

\* the nearer of q and q + 1 when both lie between the midpoints
Nearest(c, s) ==
    IF c.low /\ ~c.high THEN c.q
    ELSE IF c.high /\ ~c.low THEN BAdd(c.q, <<1>>)
    ELSE IF BCmp(BMulSmall(c.r, 2), s) < 0 THEN c.q
    ELSE BAdd(c.q, <<1>>)

Shortest(neg, x, fmt) ==
    IF x.m = <<>> THEN Fin(neg, 0, 0, 0)
    ELSE ApplyTo(Gaps(x, fmt), LAMBDA g :
         ApplyTo(Scaled(g), LAMBDA s0 :
         ApplyTo(ScaleUp(s0), LAMBDA sc :
         ApplyTo(FewestDigits(sc, 1, fmt.most), LAMBDA n :
         ApplyTo(Cut(sc, n), LAMBDA c :
         ApplyTo(BDivMod(Nearest(c, sc.s), BFromInt(Giga)), LAMBDA dec :
             Normalize(neg, BToInt(dec.q), BToInt(dec.r), sc.k - n)))))))

\* With a significand below 10^15 and an exponent within 22 the significand
\* and the power of ten are exact f64s, so the one operation of
\* f64_from_parts gives the f64 nearest to the literal (and `as f32` the f32
\* nearest to it); a literal of up to 15 digits (6 for f32) is then the
\* shortest decimal of that float, and the float is named without the
\* arithmetic.
ReadsExactly(j, fmt) ==
    /\ j.hi < 10^6
    /\ Abs(j.e) <= 22
    /\ LET n == Normalize(j.neg, j.hi, j.lo, j.e) IN DecDigits(n.hi, n.lo) <= fmt.digits

\* An integer of no more bits than the significand is held exactly and is
\* its own shortest decimal.
HoldsExactly(j, fmt) == BitLen(IntMag(j)) <= Min(fmt.p, 30)

SmallInt(j) == Normalize(j.neg, (j.hi * Limb + j.lo) \div Giga, (j.hi * Limb + j.lo) % Giga, 0)

\* serde_json reads "-0" as the float -0.0, every other integer literal as
\* u64 / i64.
IsNegZero(j) == j.neg /\ j.hi = 0 /\ j.lo = 0

DeBool(j) ==
    IF j.t = "bool" THEN Ok(j.b) ELSE Err("invalid_type", "")

DeString(j) ==
    IF j.t = "str" THEN Ok(j.s) ELSE Err("invalid_type", "")

\* The bug of converting with `as u32`: the value wraps modulo 2^32.
DeU32_wrapping(j) ==
    IF j.t = "int" /\ ~j.neg
    THEN Ok([hi |-> j.hi % Limb, lo |-> j.lo])
    ELSE Err("invalid_type", "")

\* u32: visit_u64 / visit_i64 with a range check; no visit_f64.
DeU32(j) ==
    IF j.t = "int"
    THEN IF IsNegZero(j) THEN Err("invalid_type", "")
         ELSE IF j.neg \/ j.hi >= Limb THEN Err("invalid_value", "")
         ELSE Ok([hi |-> j.hi, lo |-> j.lo])
    ELSE Err("invalid_type", "")

\* f32: visit_u64 / visit_i64 / visit_f64, each `v as f32`; a literal with
\* fraction or exponent is an f64 first, and an f64 too large for f32
\* becomes an infinity.
DeF32(j) ==
    IF j.t = "int"
    THEN IF HoldsExactly(j, F32) THEN Ok(SmallInt(j))
         ELSE Ok(Shortest(j.neg, RoundBits(IntMag(j), 0, FALSE, F32), F32))
    ELSE IF j.t = "float"
    THEN IF ReadsExactly(j, F32) THEN Ok(Normalize(j.neg, j.hi, j.lo, j.e))
         ELSE LET f == ParseFloat(j) IN
              IF ~f.ok THEN f
              ELSE LET g == RoundBits(f.v.m, f.v.e, FALSE, F32)
                   IN  IF IsInfinite(g, F32) THEN Ok(Inf(j.neg))
                       ELSE Ok(Shortest(j.neg, g, F32))
    ELSE Err("invalid_type", "")

\* f64: visit_u64 / visit_i64 as `v as f64`, visit_f64 as it is.
DeF64(j) ==
    IF j.t = "int"
    THEN IF HoldsExactly(j, F64) THEN Ok(SmallInt(j))
         ELSE Ok(Shortest(j.neg, RoundBits(IntMag(j), 0, FALSE, F64), F64))
    ELSE IF j.t = "float"
    THEN IF ReadsExactly(j, F64) THEN Ok(Normalize(j.neg, j.hi, j.lo, j.e))
         ELSE LET f == ParseFloat(j) IN
              IF f.ok THEN Ok(Shortest(j.neg, f.v, F64)) ELSE f
    ELSE Err("invalid_type", "")

RECURSIVE TimesPow10(_, _, _)
\* hi * 10^9 + lo times 10^n
TimesPow10(hi, lo, n) ==
    IF n = 0 THEN [hi |-> hi, lo |-> lo]
    ELSE TimesPow10(hi * 10 + lo \div (Giga \div 10), (lo % (Giga \div 10)) * 10, n - 1)

\* serde_json writes a non-finite float as null and a finite one as ryu
\* formats it; the literal is given as the parser reads it back.  Only a
\* whole number written without exponent differs from the value's own digits
\* and exponent: 1234e7 is written 12340000000.0, and zero 0.0.
SerFloat(v, fmt) ==
    IF v.k # "fin" THEN JNull
    ELSE IF v.hi = 0 /\ v.lo = 0 THEN JDec(v.neg, 0, 0, -1)
    ELSE IF v.e >= 0 /\ DecDigits(v.hi, v.lo) + v.e <= fmt.plain
    THEN LET s == TimesPow10(v.hi, v.lo, v.e + 1) IN JDec(v.neg, s.hi, s.lo, -1)
    ELSE JDec(v.neg, v.hi, v.lo, v.e)

(***************************************************************************)
(* The derived Deserialize                                                 *)
(***************************************************************************)

RECURSIVE Default(_), DefaultStruct(_, _, _)

\* #[derive(Default)] on a struct: every field at its own default.
DefaultStruct(fields, i, acc) ==
    IF i > Len(fields) THEN acc
    ELSE DefaultStruct(fields, i + 1, (fields[i].name :> Default(fields[i].ty)) @@ acc)

Default(ty) ==
    CASE ty.c = "bool" -> FALSE
      [] ty.c = "u32" -> [hi |-> 0, lo |-> 0]
      [] ty.c \in {"f32", "f64"} -> Fin(FALSE, 0, 0, 0)
      [] ty.c = "string" -> ""
      [] ty.c = "option" -> None
      [] ty.c = "vec" -> <<>>
      [] ty.c = "enum" -> ty.dflt
      [] ty.c = "struct" -> DefaultStruct(ty.fields, 1, <<>>)

\* Index of the field called name, 0 when the struct has none.
FieldIndex(fields, name) ==
    IF \E i \in DOMAIN fields : fields[i].name = name
    THEN CHOOSE i \in DOMAIN fields : fields[i].name = name
    ELSE 0

HasVariant(ty, s) == \E i \in DOMAIN ty.variants : ty.variants[i].s = s
VariantNamed(ty, s) == (CHOOSE i \in DOMAIN ty.variants : ty.variants[i].s = s)

\* A unit variant is the string of its name, or an object of that one key
\* with the value null.
DeEnum(ty, j) ==
    IF j.t = "str"
    THEN IF HasVariant(ty, j.s) THEN Ok(ty.variants[VariantNamed(ty, j.s)].v)
         ELSE Err("unknown_variant", "")
    ELSE IF j.t = "obj"
    THEN IF Len(j.o) = 0 THEN Err("expected_some_value", "")
         ELSE IF ~HasVariant(ty, j.o[1].k) THEN Err("unknown_variant", "")
         ELSE IF j.o[1].v.t # "null" THEN Err("invalid_type", "")
         ELSE IF Len(j.o) > 1 THEN Err("expected_some_value", "")
         ELSE Ok(ty.variants[VariantNamed(ty, j.o[1].k)].v)
    ELSE Err("expected_some_value", "")

\* After the last key: a field not seen takes its default when it carries
\* #[serde(default)], is None when it is an Option, and is an error otherwise;
\* the first such field in declaration order decides.
RECURSIVE Fill(_, _, _)
Fill(fields, acc, i) ==
    IF i > Len(fields) THEN Ok(acc)
    ELSE LET f == fields[i] IN
         IF f.name \in DOMAIN acc THEN Fill(fields, acc, i + 1)
         ELSE IF f.default THEN Fill(fields, (f.name :> Default(f.ty)) @@ acc, i + 1)
         ELSE IF f.ty.c = "option" THEN Fill(fields, (f.name :> None) @@ acc, i + 1)
         ELSE Err("missing_field", f.name)

RECURSIVE Deserialize(_, _), VisitMap(_, _, _, _), VisitSeq(_, _, _, _), VisitVec(_, _, _, _)

\* The bug of adding #[serde(deny_unknown_fields)].
VisitMap_denyUnknown(fields, entries, i, acc) ==
    IF i > Len(entries) THEN Fill(fields, acc, 1)
    ELSE LET en == entries[i]
             fi == FieldIndex(fields, en.k)
         IN  IF fi = 0 THEN Err("unknown_field", en.k)
             ELSE IF en.k \in DOMAIN acc THEN Err("duplicate_field", en.k)
             ELSE LET r == Deserialize(fields[fi].ty, en.v)
                  IN  IF r.ok THEN VisitMap(fields, entries, i + 1, (en.k :> r.v) @@ acc)
                      ELSE r

\* visit_map: the entries in document order; a key that names no field is
\* skipped with its value unread, a field met twice is an error, and the
\* first value that fails to deserialize ends the parse.
VisitMap(fields, entries, i, acc) ==
    IF i > Len(entries) THEN Fill(fields, acc, 1)
    ELSE LET en == entries[i]
             fi == FieldIndex(fields, en.k)
         IN  IF fi = 0 THEN VisitMap(fields, entries, i + 1, acc)
             ELSE IF en.k \in DOMAIN acc THEN Err("duplicate_field", en.k)
             ELSE LET r == Deserialize(fields[fi].ty, en.v)
                  IN  IF r.ok THEN VisitMap(fields, entries, i + 1, (en.k :> r.v) @@ acc)
                      ELSE r

\* visit_seq: a struct written as an array of its fields in order.
VisitSeq(fields, a, i, acc) ==
    IF i > Len(fields)
    THEN IF Len(a) > Len(fields) THEN Err("trailing_characters", "") ELSE Ok(acc)
    ELSE LET f == fields[i] IN
         IF i <= Len(a)
         THEN LET r == Deserialize(f.ty, a[i])
              IN  IF r.ok THEN VisitSeq(fields, a, i + 1, (f.name :> r.v) @@ acc) ELSE r
         ELSE IF f.default THEN VisitSeq(fields, a, i + 1, (f.name :> Default(f.ty)) @@ acc)
         ELSE Err("invalid_length", "")

VisitVec(ty, a, i, acc) ==
    IF i > Len(a) THEN Ok(acc)
    ELSE LET r == Deserialize(ty, a[i])
         IN  IF r.ok THEN VisitVec(ty, a, i + 1, Append(acc, r.v)) ELSE r

Deserialize(ty, j) ==
    CASE ty.c = "bool" -> DeBool(j)
      [] ty.c = "u32" -> DeU32(j)
      [] ty.c = "f32" -> DeF32(j)
      [] ty.c = "f64" -> DeF64(j)
      [] ty.c = "string" -> DeString(j)
      [] ty.c = "option" ->
            IF j.t = "null" THEN Ok(None)
            ELSE LET r == Deserialize(ty.of, j) IN IF r.ok THEN Ok(Some(r.v)) ELSE r
      [] ty.c = "vec" ->
            IF j.t = "arr" THEN VisitVec(ty.of, j.a, 1, <<>>) ELSE Err("invalid_type", "")
      [] ty.c = "enum" -> DeEnum(ty, j)
      [] ty.c = "struct" ->
            IF j.t = "obj" THEN VisitMap(ty.fields, j.o, 1, <<>>)
            ELSE IF j.t = "arr" THEN VisitSeq(ty.fields, j.a, 1, <<>>)
            ELSE Err("invalid_type", "")

(***************************************************************************)
(* The derived Serialize: every field, in declaration order.               *)
(***************************************************************************)

VariantTag(ty, v) == ty.variants[CHOOSE i \in DOMAIN ty.variants : ty.variants[i].v = v].s

RECURSIVE SerializeValue(_, _)

\* The effect of #[serde(skip_serializing_if = ...)] on the optional
\* fields: a None, or an enum at its default, is left out.
SerializeStruct_skipDefaults(ty, v) ==
    LET keep == SelectSeq(ty.fields,
                    LAMBDA f : ~(\/ f.ty.c = "option" /\ ~v[f.name].some
                                 \/ f.ty.c = "enum" /\ v[f.name] = f.ty.dflt))
    IN  JObj([i \in 1..Len(keep) |->
                Entry(keep[i].name, SerializeValue(keep[i].ty, v[keep[i].name]))])

SerializeStruct(ty, v) ==
    JObj([i \in 1..Len(ty.fields) |->
            Entry(ty.fields[i].name, SerializeValue(ty.fields[i].ty, v[ty.fields[i].name]))])

SerializeValue(ty, v) ==
    CASE ty.c = "bool" -> JBool(v)
      [] ty.c = "u32" -> JInt(FALSE, v.hi, v.lo)
      [] ty.c = "f32" -> SerFloat(v, F32)
      [] ty.c = "f64" -> SerFloat(v, F64)
      [] ty.c = "string" -> JStr(v)
      [] ty.c = "option" -> IF v.some THEN SerializeValue(ty.of, v.v) ELSE JNull
      [] ty.c = "vec" -> JArr([i \in 1..Len(v) |-> SerializeValue(ty.of, v[i])])
      [] ty.c = "enum" -> JStr(VariantTag(ty, v))
      [] ty.c = "struct" -> SerializeStruct(ty, v)

(***************************************************************************)
(* The schema of biome.rs                                                  *)
(***************************************************************************)

TemperatureModifier ==
    TEnum(<<Variant("None", "none"), Variant("Frozen", "frozen")>>, "None")

EffectsGrassColorModifier ==
    TEnum(<<Variant("None", "none"), Variant("DarkForest", "dark_forest"),
            Variant("Swamp", "swamp")>>, "None")

EffectsParticle == TStruct(<<>>)

EffectsMoodSound ==
    TStruct(<<Field("sound", TString, FALSE),
              Field("tick_delay", TU32, FALSE),
              Field("block_search_extent", TU32, FALSE),
              Field("offset", TF64, FALSE)>>)

EffectsAdditionsSound ==
    TStruct(<<Field("sound", TString, FALSE),
              Field("tick_chance", TF64, FALSE)>>)

EffectsMusic ==
    TStruct(<<Field("sound", TString, FALSE),
              Field("min_delay", TU32, FALSE),
              Field("max_delay", TU32, FALSE),
              Field("replace_current_music", TBool, FALSE)>>)

\* The bug of giving the placeholder a field of its own.
Carvers_withAir == TStruct(<<Field("air", TVec(TString), FALSE)>>)

Carvers == TStruct(<<>>)

Spawners == TStruct(<<>>)

SpawnCosts == TStruct(<<>>)

\* The bug of leaving #[serde(default)] off spawn_costs.
Effects_requiredSpawnCosts ==
    TStruct(<<Field("fog_color", TU32, FALSE),
              Field("sky_color", TU32, FALSE),
              Field("water_color", TU32, FALSE),
              Field("water_fog_color", TU32, FALSE),
              Field("foliage_color", TOption(TU32), TRUE),
              Field("grass_color", TOption(TU32), TRUE),
              Field("grass_color_modifier", EffectsGrassColorModifier, TRUE),
              Field("particle", TOption(EffectsParticle), TRUE),
              Field("ambient_sound", TOption(TString), TRUE),
              Field("mood_sound", TOption(EffectsMoodSound), TRUE),
              Field("additions_sound", TOption(EffectsAdditionsSound), TRUE),
              Field("music", TOption(EffectsMusic), TRUE),
              Field("spawners", Spawners, TRUE),
              Field("spawn_costs", SpawnCosts, FALSE)>>)

Effects ==
    TStruct(<<Field("fog_color", TU32, FALSE),
              Field("sky_color", TU32, FALSE),
              Field("water_color", TU32, FALSE),
              Field("water_fog_color", TU32, FALSE),
              Field("foliage_color", TOption(TU32), TRUE),
              Field("grass_color", TOption(TU32), TRUE),
              Field("grass_color_modifier", EffectsGrassColorModifier, TRUE),
              Field("particle", TOption(EffectsParticle), TRUE),
              Field("ambient_sound", TOption(TString), TRUE),
              Field("mood_sound", TOption(EffectsMoodSound), TRUE),
              Field("additions_sound", TOption(EffectsAdditionsSound), TRUE),
              Field("music", TOption(EffectsMusic), TRUE),
              Field("spawners", Spawners, TRUE),
              Field("spawn_costs", SpawnCosts, TRUE)>>)

\* The bug of putting #[serde(default)] on carvers.
CustomeBiome_defaultCarvers ==
    TStruct(<<Field("has_precipitation", TBool, FALSE),
              Field("temperature", TF32, FALSE),
              Field("temperature_modifier", TemperatureModifier, TRUE),
              Field("downfall", TF32, FALSE),
              Field("effects", Effects, FALSE),
              Field("carvers", Carvers, TRUE),
              Field("features", TVec(TVec(TString)), FALSE),
              Field("creature_spawn_probability", TOption(TF32), TRUE),
              Field("spawners", Spawners, FALSE)>>)

CustomeBiome ==
    TStruct(<<Field("has_precipitation", TBool, FALSE),
              Field("temperature", TF32, FALSE),
              Field("temperature_modifier", TemperatureModifier, TRUE),
              Field("downfall", TF32, FALSE),
              Field("effects", Effects, FALSE),
              Field("carvers", Carvers, FALSE),
              Field("features", TVec(TVec(TString)), FALSE),
              Field("creature_spawn_probability", TOption(TF32), TRUE),
              Field("spawners", Spawners, FALSE)>>)

(***************************************************************************)
(* Documents: reading and editing a value at a path of keys                *)
(***************************************************************************)

HasKey(entries, k) == \E i \in DOMAIN entries : entries[i].k = k
ValueOf(entries, k) == entries[CHOOSE i \in DOMAIN entries : entries[i].k = k].v

Missing == [found |-> FALSE]
Found(v) == [found |-> TRUE, v |-> v]

\* The value at path in document d, Missing when some key of the path is
\* absent or leads through something that is no object.
RECURSIVE At(_, _)
At(d, path) ==
    IF path = <<>> THEN Found(d)
    ELSE IF d.t = "obj" /\ HasKey(d.o, Head(path)) THEN At(ValueOf(d.o, Head(path)), Tail(path))
    ELSE Missing

\* A key already present keeps its place; a new key goes in front.
SetKey(entries, k, v) ==
    IF HasKey(entries, k)
    THEN [i \in DOMAIN entries |-> IF entries[i].k = k THEN Entry(k, v) ELSE entries[i]]
    ELSE <<Entry(k, v)>> \o entries

DelKey(entries, k) == SelectSeq(entries, LAMBDA en : en.k # k)

\* d with the value at path set to v (the objects on the way must exist).
RECURSIVE Put(_, _, _)
Put(d, path, v) ==
    IF path = <<>> THEN v
    ELSE IF d.t # "obj" THEN d
    ELSE IF Len(path) = 1 THEN JObj(SetKey(d.o, path[1], v))
    ELSE IF HasKey(d.o, Head(path))
    THEN JObj(SetKey(d.o, Head(path), Put(ValueOf(d.o, Head(path)), Tail(path), v)))
    ELSE d

\* d without the key at path.
RECURSIVE Drop(_, _)
Drop(d, path) ==
    IF path = <<>> \/ d.t # "obj" THEN d
    ELSE IF Len(path) = 1 THEN JObj(DelKey(d.o, path[1]))
    ELSE IF HasKey(d.o, Head(path))
    THEN JObj(SetKey(d.o, Head(path), Drop(ValueOf(d.o, Head(path)), Tail(path))))
    ELSE d

(***************************************************************************)
(* The documents the model is run on: the minimal valid document, changed  *)
(* in up to MaxEdits places.                                               *)
(***************************************************************************)

MaxEdits == 2

U(n) == JInt(FALSE, n \div Limb, n % Limb)
U32Max == JInt(FALSE, Limb - 1, Limb - 1)
TwoTo32 == JInt(FALSE, Limb, 0)
MinusOne == JInt(TRUE, 0, 1)
OneAndHalf == JFloat(15, -1)

BaseEffects ==
    JObj(<<Entry("fog_color", U(12638463)),
           Entry("sky_color", U(7907327)),
           Entry("water_color", U(4159204)),
           Entry("water_fog_color", U(329011))>>)

BaseDoc ==
    JObj(<<Entry("has_precipitation", JBool(TRUE)),
           Entry("temperature", JFloat(8, -1)),
           Entry("downfall", JFloat(4, -1)),
           Entry("effects", BaseEffects),
           Entry("carvers", JObj(<<>>)),
           Entry("features", JArr(<<>>)),
           Entry("spawners", JObj(<<>>))>>)

MoodSoundDoc ==
    JObj(<<Entry("sound", JStr("minecraft:ambient.cave")),
           Entry("tick_delay", U(6000)),
           Entry("block_search_extent", U(8)),
           Entry("offset", JFloat(2, 0))>>)

AdditionsSoundDoc ==
    JObj(<<Entry("sound", JStr("minecraft:ambient.nether_wastes.additions")),
           Entry("tick_chance", JFloat(111, -4))>>)

MusicDoc ==
    JObj(<<Entry("sound", JStr("minecraft:music.overworld.meadow")),
           Entry("min_delay", U(12000)),
           Entry("max_delay", U(24000)),
           Entry("replace_current_music", JBool(FALSE))>>)

CarversContent ==
    JObj(<<Entry("air", JArr(<<JStr("minecraft:cave"), JStr("minecraft:canyon")>>))>>)

SpawnersContent ==
    JObj(<<Entry("monster", JArr(<<JObj(<<Entry("type", JStr("minecraft:zombie")),
                                          Entry("weight", U(95))>>)>>))>>)

SpawnCostsContent ==
    JObj(<<Entry("minecraft:enderman", JObj(<<Entry("energy_budget", JFloat(12, -2)),
                                              Entry("charge", JFloat(1, 0))>>))>>)

ParticleContent ==
    JObj(<<Entry("probability", JFloat(118093, -7)),
           Entry("options", JObj(<<Entry("type", JStr("minecraft:white_ash"))>>))>>)

Set(path, v) == [path |-> path, has |-> TRUE, v |-> v]
Del(path) == [path |-> path, has |-> FALSE, v |-> JNull]

TopEdits ==
    <<Del(<<"has_precipitation">>), Del(<<"temperature">>), Del(<<"downfall">>),
      Del(<<"effects">>), Del(<<"carvers">>), Del(<<"features">>), Del(<<"spawners">>),
      Set(<<"temperature">>, U(1)),
      Set(<<"temperature">>, JFloat(25, -1)),
      Set(<<"downfall">>, JFloat(-5, -1)),
      Set(<<"temperature_modifier">>, JStr("frozen")),
      Set(<<"temperature_modifier">>, JStr("none")),
      Set(<<"temperature_modifier">>, JObj(<<Entry("frozen", JNull)>>)),
      Set(<<"carvers">>, CarversContent),
      Set(<<"spawners">>, SpawnersContent),
      Set(<<"features">>, JArr(<<JArr(<<JStr("minecraft:lake_lava_underground"),
                                        JStr("minecraft:lake_lava_surface")>>),
                                 JArr(<<JStr("minecraft:ore_dirt")>>)>>)),
      Set(<<"creature_spawn_probability">>, JNull),
      Set(<<"creature_spawn_probability">>, JFloat(0, 0)),
      Set(<<"creature_spawn_probability">>, JFloat(5, -1)),
      Set(<<"creature_spawn_probability">>, JFloat(999999, -6)),
      Set(<<"creature_spawn_probability">>, JFloat(10, -1)),
      Set(<<"creature_spawn_probability">>, JFloat(-5, -1)),
      Set(<<"format_version">>, U(3))>>

ColorEdits ==
    <<Del(<<"effects", "fog_color">>), Del(<<"effects", "sky_color">>),
      Del(<<"effects", "water_color">>), Del(<<"effects", "water_fog_color">>),
      Set(<<"effects", "fog_color">>, U32Max),
      Set(<<"effects", "fog_color">>, TwoTo32),
      Set(<<"effects", "fog_color">>, JNull),
      Set(<<"effects", "sky_color">>, MinusOne),
      Set(<<"effects", "water_color">>, OneAndHalf),
      Set(<<"effects", "water_fog_color">>, JFloat(30, -1)),
      Set(<<"effects", "foliage_color">>, U(5)),
      Set(<<"effects", "foliage_color">>, JNull),
      Set(<<"effects", "foliage_color">>, TwoTo32),
      Set(<<"effects", "grass_color">>, U32Max),
      Set(<<"effects", "grass_color">>, MinusOne),
      Set(<<"effects", "grass_color">>, OneAndHalf)>>

EffectsEdits ==
    <<Set(<<"effects", "grass_color_modifier">>, JStr("dark_forest")),
      Set(<<"effects", "grass_color_modifier">>, JStr("swamp")),
      Set(<<"effects", "particle">>, JObj(<<>>)),
      Set(<<"effects", "particle">>, ParticleContent),
      Set(<<"effects", "ambient_sound">>, JStr("minecraft:ambient.cave")),
      Set(<<"effects", "spawners">>, SpawnersContent),
      Set(<<"effects", "spawn_costs">>, SpawnCostsContent),
      Set(<<"effects", "sky_dark">>, JBool(TRUE))>>

SoundEdits ==
    <<Set(<<"effects", "mood_sound">>, MoodSoundDoc),
      Set(<<"effects", "mood_sound">>, Drop(MoodSoundDoc, <<"sound">>)),
      Set(<<"effects", "mood_sound">>, Drop(MoodSoundDoc, <<"tick_delay">>)),
      Set(<<"effects", "mood_sound">>, Drop(MoodSoundDoc, <<"block_search_extent">>)),
      Set(<<"effects", "mood_sound">>, Drop(MoodSoundDoc, <<"offset">>)),
      Set(<<"effects", "mood_sound">>, Put(MoodSoundDoc, <<"tick_delay">>, TwoTo32)),
      Set(<<"effects", "mood_sound">>, Put(MoodSoundDoc, <<"block_search_extent">>, MinusOne)),
      Set(<<"effects", "additions_sound">>, AdditionsSoundDoc),
      Set(<<"effects", "additions_sound">>, Drop(AdditionsSoundDoc, <<"sound">>)),
      Set(<<"effects", "additions_sound">>, Drop(AdditionsSoundDoc, <<"tick_chance">>)),
      Set(<<"effects", "music">>, MusicDoc),
      Set(<<"effects", "music">>, Drop(MusicDoc, <<"sound">>)),
      Set(<<"effects", "music">>, Drop(MusicDoc, <<"min_delay">>)),
      Set(<<"effects", "music">>, Drop(MusicDoc, <<"max_delay">>)),
      Set(<<"effects", "music">>, Drop(MusicDoc, <<"replace_current_music">>)),
      Set(<<"effects", "music">>, Put(MusicDoc, <<"min_delay">>, TwoTo32)),
      Set(<<"effects", "music">>, Put(MusicDoc, <<"max_delay">>, OneAndHalf))>>

Edits == TopEdits \o ColorEdits \o EffectsEdits \o SoundEdits

WithOffset(v) == Put(BaseDoc, <<"effects", "mood_sound">>, Put(MoodSoundDoc, <<"offset">>, v))
WithTickChance(v) ==
    Put(BaseDoc, <<"effects", "additions_sound">>, Put(AdditionsSoundDoc, <<"tick_chance">>, v))

\* Documents whose numbers are at the edges of the float formats: 1e39 is
\* above f32, 1e-50 below it, 16777217 = 2^24 + 1 is no f32; 1.24663e-24,
\* 1e-23 and 1.2466300000000001e-24 are read with the inexact powers 1e29,
\* 1e23 and 1e40, 1e-400 is below f64, 1e400 above it, and 4294967295 is an
\* integer given for an f64.
NumberDocs ==
    <<Put(BaseDoc, <<"temperature">>, JFloat(1, 39)),
      Put(BaseDoc, <<"temperature">>, JFloat(1, -50)),
      Put(BaseDoc, <<"downfall">>, U(16777217)),
      Put(BaseDoc, <<"creature_spawn_probability">>, JFloat(9999999, -7)),
      WithOffset(JFloat(124663, -29)),
      WithOffset(JFloat(1, -23)),
      WithOffset(JFloat(1, -400)),
      WithOffset(JFloat(1, 400)),
      WithOffset(U32Max),
      WithTickChance(JDec(FALSE, 12466300, 1, -40)),
      WithTickChance(JFloat(-3, -30))>>

ApplyEdit(d, e) == IF e.has THEN Put(d, e.path, e.v) ELSE Drop(d, e.path)

\* A choice of up to MaxEdits edits: c[i] is an index into Edits or 0 for
\* "no edit"; the edits picked are applied in the order of Edits.
EditChoices == [1..MaxEdits -> 0..Len(Edits)]
Increasing(c) == \A i \in 1..(MaxEdits - 1) : c[i] = 0 \/ c[i] < c[i + 1]

\* d after the edits picked by c, from the i-th on.
RECURSIVE ApplyAll(_, _, _)
ApplyAll(d, c, i) ==
    IF i > MaxEdits THEN d
    ELSE ApplyAll(IF c[i] = 0 THEN d ELSE ApplyEdit(d, Edits[c[i]]), c, i + 1)

(***************************************************************************)
(* Operations                                                              *)
(***************************************************************************)

\* serde_json::from_*::<CustomeBiome>(doc)
Parse ==
    /\ pc = "input"
    /\ res' = Deserialize(CustomeBiome, doc)
    /\ pc' = "parsed"
    /\ UNCHANGED <<resolved, kind, doc, out, res2>>

\* serde_json::to_*(&record)
Serialize ==
    /\ pc = "parsed"
    /\ res.ok
    /\ out' = SerializeValue(CustomeBiome, res.v)
    /\ pc' = "serialized"
    /\ UNCHANGED <<resolved, kind, doc, res, res2>>

\* the serialized document read back
Reparse ==
    /\ pc = "serialized"
    /\ res2' = Deserialize(CustomeBiome, out)
    /\ pc' = "reparsed"
    /\ UNCHANGED <<resolved, kind, doc, res, out>>

Init ==
    /\ resolved = <<>>
    /\ kind = "none"
    /\ \/ \E c \in EditChoices : Increasing(c) /\ doc = ApplyAll(BaseDoc, c, 1)
       \/ \E i \in DOMAIN NumberDocs : doc = NumberDocs[i]
    /\ res = NoResult
    /\ out = JNull
    /\ res2 = NoResult
    /\ pc = "input"

Next == Parse \/ Serialize \/ Reparse

Spec == Init /\ [][Next]_vars

InitKind ==
    /\ resolved = <<>>
    /\ kind = "none"
    /\ doc = JNull
    /\ res = NoResult
    /\ out = JNull
    /\ res2 = NoResult
    /\ pc = "input"

NextKind == \E k \in ResourceKind : Lookup(k)

SpecKind == InitKind /\ [][NextKind]_vars

(***************************************************************************)
(* Properties of the registry (checked under SpecKind)                     *)
(***************************************************************************)

\* The table of spec section 3.1: <<category, extension, directory>>.
KindTable ==
    [BlockStates |-> <<"Assets", "json", "blockstates">>,
     BlockModel |-> <<"Assets", "json", "models/block">>,
     ItemModel |-> <<"Assets", "json", "models/item">>,
     Texture |-> <<"Assets", "png", "textures">>,
     TextureMeta |-> <<"Assets", "png.mcmeta", "textures">>,
     WorldGen_Biome |-> <<"Data", "json", "worldgen/biome">>]

\* C1: for every resource kind, category, extension and directory are defined
\* and equal the kind's row of the table in section 3.1.
C1_MatchesTable ==
    \A k \in DOMAIN resolved :
        <<resolved[k].category, resolved[k].extension, resolved[k].directory>> = KindTable[k]

C1_AllKindsLookedUp == DOMAIN resolved = ResourceKind

\* C9: two distinct kinds never have the same (category, directory, extension);
\* Texture and TextureMeta share category and directory and differ in extension.
C9_PathsInjective ==
    /\ \A k1, k2 \in DOMAIN resolved : k1 # k2 => resolved[k1] # resolved[k2]
    /\ {"Texture", "TextureMeta"} \subseteq DOMAIN resolved =>
          /\ resolved["Texture"].category = resolved["TextureMeta"].category
          /\ resolved["Texture"].directory = resolved["TextureMeta"].directory
          /\ resolved["Texture"].extension # resolved["TextureMeta"].extension

C9_TexturePairLookedUp ==
    /\ {"Texture", "TextureMeta"} \subseteq DOMAIN resolved
    /\ Cardinality(DOMAIN resolved) >= 3

(***************************************************************************)
(* Properties of the biome schema (checked under Spec)                     *)
(***************************************************************************)

Parent(path) == SubSeq(path, 1, Len(path) - 1)
Last(path) == path[Len(path)]
IsObjectAt(d, path) == At(d, path).found /\ At(d, path).v.t = "obj"
ParseOf(d) == Deserialize(CustomeBiome, d)

\* The field of record v that path names; a path of three keys passes
\* through an optional sound record that is present.
RecAt(v, path) ==
    IF Len(path) = 1 THEN v[path[1]]
    ELSE IF Len(path) = 2 THEN v[path[1]][path[2]]
    ELSE v[path[1]][path[2]].v[path[3]]

\* A document with every optional sound object present and valid.
FullDoc ==
    Put(Put(Put(BaseDoc, <<"effects", "mood_sound">>, MoodSoundDoc),
            <<"effects", "additions_sound">>, AdditionsSoundDoc),
        <<"effects", "music">>, MusicDoc)

\* C2: serializing a parsed record and parsing the output again succeeds and
\* gives the same record.
C2_RoundTrip == pc = "reparsed" => res2 = res

IsNumber(j) == j.t \in {"int", "float"}

\* The first seven digits of a decimal of more than seven digits.
Lead7(hi, lo) ==
    IF hi = 0 THEN lo \div 10^(Digits(lo) - 7)
    ELSE IF Digits(hi) >= 7 THEN hi \div 10^(Digits(hi) - 7)
    ELSE hi * 10^(7 - Digits(hi)) + lo \div 10^(2 + Digits(hi))

\* The literal's value lies in [0.0, 0.9999999].
InProbabilityRange(j) ==
    IF j.t = "int" THEN j.hi = 0 /\ j.lo = 0
    ELSE LET n == Normalize(j.neg, j.hi, j.lo, j.e)
             len == DecDigits(n.hi, n.lo)
         IN  \/ n.hi = 0 /\ n.lo = 0
             \/ /\ ~n.neg
                /\ \/ len + n.e < 0
                   \/ len + n.e = 0 /\ (len <= 7 \/ Lead7(n.hi, n.lo) < 9999999)

\* C3: in an otherwise valid document, creature_spawn_probability in
\* [0.0, 0.9999999] parses, a number outside that range is rejected as out of
\* range, and an absent field parses to an absent value.
C3_SpawnProbabilityRange ==
    pc = "parsed" /\ ParseOf(Drop(doc, <<"creature_spawn_probability">>)).ok =>
        LET a == At(doc, <<"creature_spawn_probability">>) IN
        IF ~a.found THEN res.ok /\ res.v.creature_spawn_probability = None
        ELSE IF ~IsNumber(a.v) THEN TRUE
        ELSE IF InProbabilityRange(a.v)
        THEN res.ok /\ res.v.creature_spawn_probability.some
        ELSE ~res.ok /\ res.err = "out_of_range"

RequiredPaths ==
    {<<"has_precipitation">>, <<"temperature">>, <<"downfall">>, <<"effects">>,
     <<"carvers">>, <<"features">>, <<"spawners">>,
     <<"effects", "fog_color">>, <<"effects", "sky_color">>,
     <<"effects", "water_color">>, <<"effects", "water_fog_color">>,
     <<"effects", "mood_sound", "sound">>, <<"effects", "mood_sound", "tick_delay">>,
     <<"effects", "mood_sound", "block_search_extent">>, <<"effects", "mood_sound", "offset">>,
     <<"effects", "additions_sound", "sound">>, <<"effects", "additions_sound", "tick_chance">>,
     <<"effects", "music", "sound">>, <<"effects", "music", "min_delay">>,
     <<"effects", "music", "max_delay">>, <<"effects", "music", "replace_current_music">>}

\* The one thing wrong with d is that the key at path is absent.
OnlyLacks(d, path) ==
    /\ IsObjectAt(d, Parent(path))
    /\ ~At(d, path).found
    /\ ParseOf(Put(d, path, At(FullDoc, path).v)).ok

\* C4: when one required field is absent from an otherwise valid document,
\* parse fails with a missing-field error naming it and returns no record.
C4_MissingRequiredField ==
    pc = "parsed" =>
        \A p \in RequiredPaths : OnlyLacks(doc, p) => res = Err("missing_field", Last(p))

C4_RequiredFieldsAbsent ==
    /\ pc = "parsed"
    /\ OnlyLacks(doc, <<"carvers">>)
    /\ res = Err("missing_field", "carvers")

OptionalPaths ==
    {<<"temperature_modifier">>, <<"effects", "grass_color_modifier">>,
     <<"effects", "foliage_color">>, <<"effects", "grass_color">>,
     <<"effects", "particle">>, <<"effects", "ambient_sound">>,
     <<"effects", "mood_sound">>, <<"effects", "additions_sound">>,
     <<"effects", "music">>, <<"effects", "spawners">>, <<"effects", "spawn_costs">>}

\* The record has the documented default at path.
HoldsDefault(v, path) ==
    CASE Last(path) \in {"temperature_modifier", "grass_color_modifier"} -> RecAt(v, path) = "None"
      [] Last(path) \in {"spawners", "spawn_costs"} -> DOMAIN RecAt(v, path) = {}
      [] OTHER -> ~RecAt(v, path).some

\* A valid value for the optional field at path.
SampleOptional(path) ==
    CASE Last(path) = "temperature_modifier" -> JStr("frozen")
      [] Last(path) = "grass_color_modifier" -> JStr("swamp")
      [] Last(path) \in {"foliage_color", "grass_color"} -> U(5)
      [] Last(path) = "ambient_sound" -> JStr("minecraft:ambient.cave")
      [] Last(path) \in {"particle", "spawners", "spawn_costs"} -> JObj(<<>>)
      [] OTHER -> At(FullDoc, path).v

\* C5: a document that omits an optional field parses (when it parses with
\* the field given), and the field takes its default: None for the two
\* modifiers, absent for colours, particle and sounds, an empty record for
\* effects.spawners and effects.spawn_costs.
C5_DefaultsApplied ==
    pc = "parsed" =>
        \A p \in OptionalPaths :
            /\ IsObjectAt(doc, Parent(p))
            /\ ~At(doc, p).found
            /\ ParseOf(Put(doc, p, SampleOptional(p))).ok
            => res.ok /\ HoldsDefault(res.v, p)

C5_OptionalFieldsOmitted ==
    /\ pc = "parsed"
    /\ res.ok
    /\ \A p \in OptionalPaths : ~At(doc, p).found

KeysOf(j) == [i \in DOMAIN j.o |-> j.o[i].k]

TopKeys ==
    <<"has_precipitation", "temperature", "temperature_modifier", "downfall", "effects",
      "carvers", "features", "creature_spawn_probability", "spawners">>

EffectsKeys ==
    <<"fog_color", "sky_color", "water_color", "water_fog_color", "foliage_color",
      "grass_color", "grass_color_modifier", "particle", "ambient_sound", "mood_sound",
      "additions_sound", "music", "spawners", "spawn_costs">>

\* The optional fields C6 speaks of, each with "the record holds its default
\* or absent value there".
AtDefault(v, path) ==
    IF Last(path) \in {"temperature_modifier", "grass_color_modifier"}
    THEN RecAt(v, path) = "None"
    ELSE ~RecAt(v, path).some

OmittablePaths ==
    (OptionalPaths \ {<<"effects", "spawners">>, <<"effects", "spawn_costs">>})
        \cup {<<"creature_spawn_probability">>}

\* C6 as stated: serialize emits every required field and leaves out the key
\* of each optional field that holds its default or absent value.
C6_OmitsDefaults ==
    pc = "serialized" =>
        /\ \A p \in {q \in RequiredPaths : Len(q) <= 2} : At(out, p).found
        /\ \A p \in OmittablePaths : AtDefault(res.v, p) => ~At(out, p).found

\* C6 as amended: serialize emits every field, required or optional, in
\* declaration order; an optional field holding an absent value is written
\* as null and a modifier holding None as the string "none".
C6_EmitsEveryField ==
    pc = "serialized" =>
        /\ KeysOf(out) = TopKeys
        /\ KeysOf(At(out, <<"effects">>).v) = EffectsKeys
        /\ \A p \in OmittablePaths :
              AtDefault(res.v, p) =>
                  At(out, p) = Found(IF Last(p) \in {"temperature_modifier", "grass_color_modifier"}
                                     THEN JStr("none") ELSE JNull)

C6_DefaultsSerialized ==
    /\ pc = "serialized"
    /\ \A p \in OmittablePaths : AtDefault(res.v, p)

IsKnown(keys, k) == \E i \in DOMAIN keys : keys[i] = k
OnlyKnown(entries, keys) == SelectSeq(entries, LAMBDA en : IsKnown(keys, en.k))
HasUnknownKey(d, keys) == d.t = "obj" /\ \E i \in DOMAIN d.o : ~IsKnown(keys, d.o[i].k)

\* d without the keys that name no field, at the top level and in effects.
StripUnknown(d) ==
    LET top == JObj(OnlyKnown(d.o, TopKeys)) IN
    IF IsObjectAt(top, <<"effects">>)
    THEN Put(top, <<"effects">>, JObj(OnlyKnown(At(top, <<"effects">>).v.o, EffectsKeys)))
    ELSE top

\* C7: a document that parses still parses, and to the same record, when an
\* unrecognized key is added at the top level or inside effects.
C7_UnknownKeysIgnored ==
    pc = "parsed" /\ StripUnknown(doc) # doc /\ ParseOf(StripUnknown(doc)).ok =>
        res = ParseOf(StripUnknown(doc))

C7_UnknownKeysPresent ==
    /\ pc = "parsed"
    /\ HasUnknownKey(doc, TopKeys)
    /\ IsObjectAt(doc, <<"effects">>) /\ HasUnknownKey(At(doc, <<"effects">>).v, EffectsKeys)
    /\ res.ok

PlaceholderPaths ==
    <<(<<"carvers">>), (<<"spawners">>), (<<"effects", "spawners">>),
      (<<"effects", "spawn_costs">>), (<<"effects", "particle">>)>>

HasContent(d, path) == IsObjectAt(d, path) /\ Len(At(d, path).v.o) > 0

\* d with each placeholder object that has content replaced by {}.
RECURSIVE Emptied(_, _)
Emptied(d, i) ==
    IF i > Len(PlaceholderPaths) THEN d
    ELSE Emptied(IF HasContent(d, PlaceholderPaths[i])
                 THEN Put(d, PlaceholderPaths[i], JObj(<<>>)) ELSE d, i + 1)

\* C8: content inside a placeholder object is dropped: the document parses to
\* the record of the same document with the object empty, and serialize
\* writes the placeholder as {}.
C8_PlaceholderTruncation ==
    /\ pc = "parsed" /\ Emptied(doc, 1) # doc /\ ParseOf(Emptied(doc, 1)).ok =>
          res = ParseOf(Emptied(doc, 1))
    /\ pc = "serialized" =>
          \A i \in DOMAIN PlaceholderPaths :
              HasContent(doc, PlaceholderPaths[i]) => At(out, PlaceholderPaths[i]) = Found(JObj(<<>>))

C8_ContentDropped ==
    /\ pc = "serialized"
    /\ HasContent(doc, <<"carvers">>)
    /\ HasContent(doc, <<"effects", "particle">>)

U32Paths ==
    {<<"effects", "fog_color">>, <<"effects", "sky_color">>, <<"effects", "water_color">>,
     <<"effects", "water_fog_color">>, <<"effects", "foliage_color">>,
     <<"effects", "grass_color">>,
     <<"effects", "mood_sound", "tick_delay">>, <<"effects", "mood_sound", "block_search_extent">>,
     <<"effects", "music", "min_delay">>, <<"effects", "music", "max_delay">>}

OptionalU32Paths == {<<"effects", "foliage_color">>, <<"effects", "grass_color">>}

\* An integer literal with a value in 0 .. 2^32 - 1.
IsU32Literal(j) == j.t = "int" /\ ~j.neg /\ j.hi < 2^16

\* The record holds exactly the literal's value at path.
StoresExactly(v, path, j) ==
    IF path \in OptionalU32Paths
    THEN RecAt(v, path) = Some([hi |-> j.hi, lo |-> j.lo])
    ELSE RecAt(v, path) = [hi |-> j.hi, lo |-> j.lo]

\* C10 as stated: parse succeeds only when each 32-bit field that is given is
\* an integer in 0 .. 2^32 - 1, and then stores exactly that value.
C10_OnlyU32Accepted ==
    pc = "parsed" /\ res.ok =>
        \A p \in U32Paths :
            At(doc, p).found =>
                IsU32Literal(At(doc, p).v) /\ StoresExactly(res.v, p, At(doc, p).v)

\* C10 as amended: as stated, except that the optional foliage_color and
\* grass_color may also be null, which is stored as absent.
C10_OnlyU32OrNullAccepted ==
    pc = "parsed" /\ res.ok =>
        \A p \in U32Paths :
            At(doc, p).found =>
                \/ IsU32Literal(At(doc, p).v) /\ StoresExactly(res.v, p, At(doc, p).v)
                \/ p \in OptionalU32Paths /\ At(doc, p).v = JNull /\ RecAt(res.v, p) = None

C10_LargestAndNull ==
    /\ pc = "parsed"
    /\ res.ok
    /\ At(doc, <<"effects", "fog_color">>) = Found(U32Max)
    /\ At(doc, <<"effects", "foliage_color">>) = Found(JNull)

====
